---- MODULE Spec2Model ----
(***************************************************************************)
(* Finance3D: the price-grid reconstruction, mesh projection and pick      *)
(* pipeline of the Finance components (3DChart.jsx, ApiTest.jsx,           *)
(* CandlestickChart.jsx, terrain.jsx).                                     *)
(*                                                                         *)
(* Numbers.  JavaScript numbers are modelled by integers.  The smallest    *)
(* positive number is 1, so Number.MIN_VALUE (the smallest positive        *)
(* double) is 1 and every positive price is >= Number.MIN_VALUE, as in     *)
(* JavaScript.  Number.MAX_VALUE is the largest finite number of the       *)
(* model and Infinity lies beyond it.  Sums and differences are exact.     *)
(*                                                                         *)
(* Dates.  A sample's timestamp is modelled by the local calendar fields   *)
(* of `new Date(dayData.t)`: year, month 0..11 and day of month 1..31.     *)
(*                                                                         *)
(* Arrays.  A JavaScript array is a sequence: a[i] of the code is a[i + 1] *)
(* here, and loop indices keep the values they have in the code.           *)
(***************************************************************************)
EXTENDS Integers, Sequences, FiniteSets, TLC

VARIABLES
    mounted,      \* which component the page mounts
    scPhase,      \* SurfaceChart.initCharts: "idle", "fetching", "done", "error"
    scGrid,       \* SurfaceChart: priceData handed to the data series (<<>> before)
    scRange,      \* SurfaceChart: [min, max] handed to the series and the legend
    scSeries,     \* SurfaceChart: a surface series was added to the chart
    scError,      \* SurfaceChart: error state
    scLoading,    \* SurfaceChart: isLoading state
    scResults,    \* SurfaceChart: data.results of the response being processed
    scAlive,      \* SurfaceChart: the component is mounted
    scSurfaces,   \* SurfaceChart: the chart surfaces created so far, "live" or "deleted"
    scPending,    \* SurfaceChart: the surfaces whose initCharts run awaits its fetch
    scMainChart,  \* SurfaceChart: mainChart state (null or a surface)
    scCleanupChart, \* SurfaceChart: the mainChart the registered cleanup closes over
    sgvPhase,     \* StockGridVisualizer.fetchAndProcessData position
    gridData,     \* StockGridVisualizer: gridData state
    dataStats,    \* StockGridVisualizer: dataStats state
    sgvError,     \* StockGridVisualizer: error state
    sgvLoading,   \* StockGridVisualizer: isLoading state
    sgvResults,   \* StockGridVisualizer: data.results of the processed response
    tsReq,        \* TerrainShader: number of the latest (symbol, year) request
    tsInFlight,   \* TerrainShader: requests whose fetch has not settled
    tsStockData,  \* TerrainShader: stockData state
    tsDataOf,     \* TerrainShader: the request whose response stockData came from
    tsLoading,    \* TerrainShader: isLoading state
    tsError,      \* TerrainShader: error state
    tsErrorOf,    \* TerrainShader: the request whose failure set error
    tsDirty,      \* TerrainShader: the render effect is due (its deps changed)
    tsTerrain,    \* TerrainShader: the build of the latest render effect run
    tsStale,      \* TerrainShader: cleaned-up builds whose animate loop still runs
    tsBuilds,     \* TerrainShader: number of builds made so far
    tsLastHit,    \* TerrainShader: lastHitRef.current
    tsHover,      \* TerrainShader: the last step's onHoverData call and its argument
    ccReq,        \* StockCandlestickChart: number of the latest request
    ccInFlight,   \* StockCandlestickChart: requests whose fetch has not settled
    ccStockData,  \* StockCandlestickChart: stockData state (null before the first response)
    ccDataOf,     \* StockCandlestickChart: the request stockData came from
    ccLoading,    \* StockCandlestickChart: isLoading state
    ccError,      \* StockCandlestickChart: error state
    ccErrorOf,    \* StockCandlestickChart: the request whose failure set error
    ccCharts,     \* StockCandlestickChart: the runs of initializeChart, one record each
    ccChartRun,   \* StockCandlestickChart: the run whose cleanup is registered (0: none)
    tjSymbol,     \* terrain.jsx TerrainShader: symbol prop
    tjBasePrice,  \* terrain.jsx TerrainShader: basePrice prop
    tjSeed,       \* terrain.jsx TerrainShader: terrainSeed state
    tjDirty,      \* terrain.jsx TerrainShader: the effect is due to run
    tjMinMax,     \* terrain.jsx TerrainShader: minMaxRef.current
    tjPointer,    \* terrain.jsx TerrainShader: where the ray of pointerRef.current goes
    tjInteracting, \* terrain.jsx TerrainShader: interactingWithTerrainRef.current
    tjEnableRotate, \* terrain.jsx TerrainShader: controlsRef.current.enableRotate
    tuZ,          \* unseeded TerrainShader: the z generateTerrain drew last
    tuMinMax,     \* unseeded TerrainShader: minMaxRef.current
    tuHeights,    \* unseeded TerrainShader: the y of the vertices of the terrain built last
    tjHeights     \* terrain.jsx TerrainShader: y of each vertex of the terrain

scSurfaceVars == <<scAlive, scSurfaces, scPending, scMainChart, scCleanupChart>>

scVars == <<scPhase, scGrid, scRange, scSeries, scError, scLoading, scResults, scSurfaceVars>>

sgvVars == <<sgvPhase, gridData, dataStats, sgvError, sgvLoading, sgvResults>>

tsFetchVars == <<tsReq, tsInFlight, tsStockData, tsDataOf, tsLoading, tsError, tsErrorOf>>

tsPickVars == <<tsLastHit, tsHover>>

tsVars == <<tsFetchVars, tsDirty, tsTerrain, tsStale, tsBuilds, tsPickVars>>

ccChartVars == <<ccCharts, ccChartRun>>

ccVars == <<ccReq, ccInFlight, ccStockData, ccDataOf, ccLoading, ccError, ccErrorOf,
            ccChartVars>>

tjTouchVars == <<tjPointer, tjInteracting, tjEnableRotate>>

tjVars == <<tjSymbol, tjBasePrice, tjSeed, tjDirty, tjMinMax, tjHeights, tjTouchVars>>

tuVars == <<tuZ, tuMinMax, tuHeights>>

vars == <<mounted, scVars, sgvVars, tsVars, ccVars, tjVars, tuVars>>

(***************************************************************************)
(* Bounds of the model and the input sets.                                 *)
(***************************************************************************)
MaxSamples == 2

SampleYear == 2024
\* The (month, date) of the modelled samples: the first, a middle and the last
\* day of a month, a month between sampled months, two samples in a month.
SampleDays == {<<0, 1>>, <<0, 15>>, <<0, 31>>, <<5, 15>>, <<11, 1>>}

SamplePrices == {100, 105, 200}

Timestamps == {[y |-> SampleYear, mo |-> md[1], d |-> md[2]] : md \in SampleDays}

Samples == [t : Timestamps, c : SamplePrices]

SampleSeqs == UNION {[1..n -> Samples] : n \in 0..MaxSamples}

\* What the input feed can answer: fetch rejects, response.ok is false, the
\* payload has no results array, or the payload carries results (maybe none).
Responses ==
    {[kind |-> "networkError"], [kind |-> "httpError"], [kind |-> "noResults"]}
    \cup {[kind |-> "ok", results |-> r] : r \in SampleSeqs}

(***************************************************************************)
(* JavaScript numbers and dates.                                           *)
(***************************************************************************)
NumberMAX_VALUE == 1000000
NumberMIN_VALUE == 1
Infinity == NumberMAX_VALUE + 1

isFinite(x) == x # Infinity /\ x # -Infinity

MathMin(a, b) == IF a <= b THEN a ELSE b
MathMax(a, b) == IF a >= b THEN a ELSE b
MathAbs(a) == IF a < 0 THEN -a ELSE a

getMonth(date) == date.mo
getDate(date) == date.d
getFullYear(date) == date.y

null == -1

(***************************************************************************)
(* The grid build of SurfaceChart.initCharts and of                        *)
(* StockGridVisualizer.fetchAndProcessData (the same code in both).        *)
(***************************************************************************)
months == 12
days == 31
basePrice == 0

\* Array(months).fill().map(() => Array(days).fill(basePrice))
EmptyGrid == [m \in 1..months |-> [d \in 1..days |-> basePrice]]

\* data.results.forEach: store the close in the cell of the sample's date.
RECURSIVE WriteSamples(_, _, _)
WriteSamples(grid, results, i) ==
    IF i > Len(results) THEN grid
    ELSE LET dayData == results[i]
             month == getMonth(dayData.t)
             day == getDate(dayData.t) - 1
         IN WriteSamples([grid EXCEPT ![month + 1][day + 1] = dayData.c], results, i + 1)

\* data.results.forEach: the running minPrice / maxPrice.
RECURSIVE TrackMinMax(_, _, _)
TrackMinMax(range, results, i) ==
    IF i > Len(results) THEN range
    ELSE TrackMinMax([min |-> MathMin(range.min, results[i].c),
                      max |-> MathMax(range.max, results[i].c)], results, i + 1)

\* Forward fill that carries a price over one empty day only.
RECURSIVE ForwardFillOneDay(_, _, _)
ForwardFillOneDay(row, d, lastKnownPrice) ==
    IF d >= days THEN row
    ELSE IF row[d + 1] # basePrice THEN ForwardFillOneDay(row, d + 1, row[d + 1])
    ELSE IF lastKnownPrice # null
         THEN ForwardFillOneDay([row EXCEPT ![d + 1] = lastKnownPrice], d + 1, null)
         ELSE ForwardFillOneDay(row, d + 1, lastKnownPrice)

\* Forward fill of one month row, from day d on.
RECURSIVE ForwardFill(_, _, _)
ForwardFill(row, d, lastKnownPrice) ==
    IF d >= days THEN row
    ELSE IF row[d + 1] # basePrice THEN ForwardFill(row, d + 1, row[d + 1])
    ELSE IF lastKnownPrice # null
         THEN ForwardFill([row EXCEPT ![d + 1] = lastKnownPrice], d + 1, lastKnownPrice)
         ELSE ForwardFill(row, d + 1, lastKnownPrice)

\* The fill without its backward pass.
BackwardFillNone(row, d, lastKnownPrice) == row

\* Backward fill that carries the last known price over every earlier cell,
\* the cells that already hold a price included.
RECURSIVE BackwardFillOverwriting(_, _, _)
BackwardFillOverwriting(row, d, lastKnownPrice) ==
    IF d < 0 THEN row
    ELSE IF lastKnownPrice # null
         THEN BackwardFillOverwriting([row EXCEPT ![d + 1] = lastKnownPrice], d - 1,
                                      lastKnownPrice)
    ELSE IF row[d + 1] # basePrice THEN BackwardFillOverwriting(row, d - 1, row[d + 1])
    ELSE BackwardFillOverwriting(row, d - 1, lastKnownPrice)

\* Backward fill of one month row, from day d down.
RECURSIVE BackwardFill(_, _, _)
BackwardFill(row, d, lastKnownPrice) ==
    IF d < 0 THEN row
    ELSE IF row[d + 1] # basePrice THEN BackwardFill(row, d - 1, row[d + 1])
    ELSE IF lastKnownPrice # null /\ row[d + 1] = basePrice
         THEN BackwardFill([row EXCEPT ![d + 1] = lastKnownPrice], d - 1, lastKnownPrice)
         ELSE BackwardFill(row, d - 1, lastKnownPrice)

\* The two passes in the other order: backward fill, then forward fill.
FillRowBackwardFirst(row) == ForwardFill(BackwardFill(row, days - 1, null), 0, null)

FillRow(row) == BackwardFill(ForwardFill(row, 0, null), days - 1, null)

\* for (let m = 0; m < months; m++) { forward fill; backward fill }, in place.
RECURSIVE FillMonths(_, _)
FillMonths(grid, m) ==
    IF m >= months THEN grid
    ELSE FillMonths([grid EXCEPT ![m + 1] = FillRow(grid[m + 1])], m + 1)

\* priceData[m].some(price => price !== basePrice)
HasData(row) == \E d \in 0..(days - 1) : row[d + 1] # basePrice

\* The inner loop over mm: the nearest month with data, first match kept.
RECURSIVE NearestMonth(_, _, _, _, _)
NearestMonth(grid, m, mm, nearestMonth, minDistance) ==
    IF mm >= months THEN nearestMonth
    ELSE IF mm = m THEN NearestMonth(grid, m, mm + 1, nearestMonth, minDistance)
    ELSE IF HasData(grid[mm + 1]) /\ MathAbs(mm - m) < minDistance
         THEN NearestMonth(grid, m, mm + 1, mm, MathAbs(mm - m))
         ELSE NearestMonth(grid, m, mm + 1, nearestMonth, minDistance)

\* FillEmptyMonths with the search never accepting a month (minDistance
\* starting at 0): empty months are left as they are.
FillEmptyMonthsNoMatch(grid, m) == grid

\* The outer loop over m: an empty month takes the row of its nearest month
\* with data; the grid is updated in place, month after month.
RECURSIVE FillEmptyMonths(_, _)
FillEmptyMonths(grid, m) ==
    IF m >= months THEN grid
    ELSE IF HasData(grid[m + 1]) THEN FillEmptyMonths(grid, m + 1)
    ELSE LET nearestMonth == NearestMonth(grid, m, 0, -1, months)
         IN IF nearestMonth # -1
            THEN FillEmptyMonths([grid EXCEPT ![m + 1] = grid[nearestMonth + 1]], m + 1)
            ELSE FillEmptyMonths(grid, m + 1)

\* The grid after sample write, forward/backward fill and month fallback.
BuildGrid(results) == FillEmptyMonths(FillMonths(WriteSamples(EmptyGrid, results, 1), 0), 0)

SetMin(S) == CHOOSE x \in S : \A y \in S : x <= y
SetMax(S) == CHOOSE x \in S : \A y \in S : x >= y

\* Final calculation of min/max across the entire grid (non-sentinel cells).
ScanMinMax(range, grid) ==
    LET cells == {grid[m + 1][d + 1] : m \in 0..(months - 1), d \in 0..(days - 1)} \ {basePrice}
    IN [min |-> SetMin(cells \cup {range.min}), max |-> SetMax(cells \cup {range.max})]

\* let minPrice = Number.MAX_VALUE; let maxPrice = Number.MIN_VALUE;
InitialRange == [min |-> NumberMAX_VALUE, max |-> NumberMIN_VALUE]

\* Ensure we have valid min/max
ValidRange(range) ==
    IF ~isFinite(range.min) \/ ~isFinite(range.max)
    THEN [min |-> 0, max |-> 1000]
    ELSE range

\* The range before "ensure sufficient range".
RawRange(results, grid) ==
    ValidRange(ScanMinMax(TrackMinMax(InitialRange, results, 1), grid))

\* EnsureRange widening only a zero-width range (=== 0 in place of < 10).
EnsureRangeZeroOnly(range) ==
    IF range.max - range.min = 0
    THEN [min |-> range.min, max |-> range.min + 10]
    ELSE range

\* Ensure sufficient range
EnsureRange(range) ==
    IF range.max - range.min < 10
    THEN [min |-> range.min, max |-> range.min + 10]
    ELSE range

NoRange == [min |-> 0, max |-> 0]

(***************************************************************************)
(* SurfaceChart (3DChart.jsx).                                             *)
(***************************************************************************)
\* The bound on the ticker/year changes of one mounted SurfaceChart.
MaxTickerChanges == 2

\* The effect's cleanup: the mainChart of the render that registered the
\* effect is deleted when it is not null; a second delete() of a surface
\* throws and is caught.
DeleteChart(surfaces, chart) ==
    IF chart # null THEN [surfaces EXCEPT ![chart] = "deleted"] ELSE surfaces

\* The body of the init effect: setIsLoading(true), and initCharts() creates
\* a surface on the chart div and awaits the fetch.  The cleanup the effect
\* returns closes over the mainChart of the render that ran the effect.
RunInitEffect(surfaces) ==
    /\ scPhase' = "fetching"
    /\ scLoading' = TRUE
    /\ scSurfaces' = Append(surfaces, "live")
    /\ scPending' = scPending \cup {Len(surfaces) + 1}
    /\ scCleanupChart' = scMainChart

\* The init effect runs after the mount.
SurfaceChartInit ==
    /\ mounted = "SurfaceChart"
    /\ scAlive
    /\ scPhase = "idle"
    /\ RunInitEffect(scSurfaces)
    /\ UNCHANGED <<mounted, tuVars, tjVars, scGrid, scRange, scSeries, scError, scResults,
                   scAlive, scMainChart, sgvVars, tsVars, ccVars>>

\* The ticker or the year prop changes: the cleanup of the previous run of
\* the init effect, then the effect again.
ScSetTicker ==
    /\ mounted = "SurfaceChart"
    /\ scAlive
    /\ scPhase # "idle"
    /\ Len(scSurfaces) <= MaxTickerChanges
    /\ RunInitEffect(DeleteChart(scSurfaces, scCleanupChart))
    /\ UNCHANGED <<mounted, tuVars, tjVars, scGrid, scRange, scSeries, scError, scResults,
                   scAlive, scMainChart, sgvVars, tsVars, ccVars>>

\* The component unmounts: the cleanup of the last run of the init effect.
ScUnmount ==
    /\ mounted = "SurfaceChart"
    /\ scAlive
    /\ scPhase # "idle"
    /\ scAlive' = FALSE
    /\ scSurfaces' = DeleteChart(scSurfaces, scCleanupChart)
    /\ UNCHANGED <<mounted, tuVars, tjVars, scPhase, scGrid, scRange, scSeries, scError, scLoading,
                   scResults, scPending, scMainChart, scCleanupChart,
                   sgvVars, tsVars, ccVars>>

\* initCharts after the fetch: a failure of the feed is thrown and caught.
\* The surface of the run is stored nowhere.  State setters of an unmounted
\* component do nothing.
InitChartsFail(id, resp) ==
    /\ mounted = "SurfaceChart"
    /\ id \in scPending
    /\ \/ resp.kind \in {"networkError", "httpError", "noResults"}
       \/ resp.kind = "ok" /\ Len(resp.results) = 0
    /\ scPending' = scPending \ {id}
    /\ scPhase' = "error"
    /\ scError' = (IF ~scAlive THEN scError
                   ELSE IF resp.kind = "networkError" THEN "Chart initialization error: fetch"
                   ELSE IF resp.kind = "httpError" THEN "Chart initialization error: API error"
                   ELSE "Chart initialization error: No data available")
    /\ scLoading' = (scLoading /\ ~scAlive)
    /\ UNCHANGED <<mounted, tuVars, tjVars, scGrid, scRange, scSeries, scResults,
                   scAlive, scSurfaces, scMainChart, scCleanupChart,
                   sgvVars, tsVars, ccVars>>

\* initCharts after the fetch: the grid build, the range and the series,
\* then setMainChart(sciChart3DSurface) with the surface of this run.
InitChartsBuild(id, resp) ==
    /\ mounted = "SurfaceChart"
    /\ id \in scPending
    /\ resp.kind = "ok" /\ Len(resp.results) > 0
    /\ scPending' = scPending \ {id}
    /\ LET priceData == BuildGrid(resp.results)
       IN /\ scGrid' = priceData
          /\ scRange' = EnsureRange(RawRange(resp.results, priceData))
    /\ scResults' = resp.results
    /\ scSeries' = TRUE
    /\ scMainChart' = (IF scAlive THEN id ELSE scMainChart)
    /\ scPhase' = "done"
    /\ scLoading' = (scLoading /\ ~scAlive)
    /\ UNCHANGED <<mounted, tuVars, tjVars, scError, scAlive, scSurfaces, scCleanupChart,
                   sgvVars, tsVars, ccVars>>

(***************************************************************************)
(* StockGridVisualizer (ApiTest.jsx).                                      *)
(***************************************************************************)
\* The effect runs fetchAndProcessData: setIsLoading(true), setError(null).
FetchAndProcessDataStart ==
    /\ mounted = "StockGridVisualizer"
    /\ sgvPhase = "idle"
    /\ sgvPhase' = "fetching"
    /\ sgvLoading' = TRUE
    /\ sgvError' = "null"
    /\ UNCHANGED <<mounted, tuVars, tjVars, scVars, gridData, dataStats, sgvResults, tsVars, ccVars>>

\* fetchAndProcessData after the fetch: a failure is caught (a payload with
\* no results array throws at data.results.length).
FetchAndProcessDataFail(resp) ==
    /\ mounted = "StockGridVisualizer"
    /\ sgvPhase = "fetching"
    /\ resp.kind \in {"networkError", "httpError", "noResults"}
    /\ sgvPhase' = "error"
    /\ sgvError' = (IF resp.kind = "networkError" THEN "fetch"
                    ELSE IF resp.kind = "httpError" THEN "Failed to fetch stock data"
                    ELSE "Cannot read properties of undefined")
    /\ sgvLoading' = FALSE
    /\ UNCHANGED <<mounted, tuVars, tjVars, scVars, gridData, dataStats, sgvResults, tsVars, ccVars>>

\* fetchAndProcessData after the fetch: grid, range, setGridData, setDataStats.
FetchAndProcessData(resp) ==
    /\ mounted = "StockGridVisualizer"
    /\ sgvPhase = "fetching"
    /\ resp.kind = "ok"
    /\ LET priceGrid == BuildGrid(resp.results)
           range == RawRange(resp.results, priceGrid)
       IN /\ gridData' = priceGrid
          /\ dataStats' = [minPrice |-> range.min, maxPrice |-> range.max,
                           totalDataPoints |-> months * days,
                           tradingDays |-> Len(resp.results)]
    /\ sgvResults' = resp.results
    /\ sgvPhase' = "done"
    /\ sgvLoading' = FALSE
    /\ UNCHANGED <<mounted, tuVars, tjVars, scVars, sgvError, tsVars, ccVars>>

(***************************************************************************)
(* TerrainShader with real data (3DChart.jsx): the render effect's grid    *)
(* build, the mesh projector and the pick of the animate loop.             *)
(*                                                                         *)
(* Heights are exact rationals [n, d]; a denominator 0 is the result of a  *)
(* division by zero (0/0 is NaN).  World x and z coordinates are counted   *)
(* in units of 1/X_SCALE_DEN, where X_SCALE_FACTOR = 2.5 is                *)
(* X_SCALE_NUM / X_SCALE_DEN.                                              *)
(***************************************************************************)
HEIGHT_SCALE == 15
GRID_DAYS == 31
GRID_MONTHS == 12
X_SCALE_NUM == 5
X_SCALE_DEN == 2
tsBasePrice == 170

Rat(n, d) == [n |-> n, d |-> d]
IsNaN(a) == a.d = 0 /\ a.n = 0
\* Numeric equality (===): never true of NaN.
RatEq(a, b) == a.d # 0 /\ b.d # 0 /\ a.n * b.d = b.n * a.d
RatLeq(a, b) == a.d > 0 /\ b.d > 0 /\ a.n * b.d <= b.n * a.d

\* The order of a.t - b.t on timestamps.
TimeKey(t) == (t.y * 12 + t.mo) * 31 + t.d

\* Array.prototype.sort((a, b) => a.t - b.t): a stable insertion of each
\* element behind the elements that are not later than it.
RECURSIVE InsertByT(_, _)
InsertByT(sorted, s) ==
    IF sorted = <<>> THEN <<s>>
    ELSE IF TimeKey(sorted[Len(sorted)].t) <= TimeKey(s.t) THEN Append(sorted, s)
    ELSE Append(InsertByT(SubSeq(sorted, 1, Len(sorted) - 1), s), sorted[Len(sorted)])

RECURSIVE SortByT(_, _)
SortByT(results, i) ==
    IF i = 0 THEN <<>> ELSE InsertByT(SortByT(results, i - 1), results[i])

\* Array.from({ length: GRID_MONTHS }, () => Array(GRID_DAYS).fill(basePrice))
TsEmptyGrid == [m \in 1..GRID_MONTHS |-> [d \in 1..GRID_DAYS |-> tsBasePrice]]

\* stockData.forEach: write the close into the cell of the sample's date.
RECURSIVE TsWriteSamples(_, _, _)
TsWriteSamples(priceGrid, stockData, i) ==
    IF i > Len(stockData) THEN priceGrid
    ELSE LET dayData == stockData[i]
             month == getMonth(dayData.t)
             day == getDate(dayData.t) - 1
         IN IF month >= 0 /\ month < GRID_MONTHS /\ day >= 0 /\ day < GRID_DAYS
            THEN TsWriteSamples([priceGrid EXCEPT ![month + 1][day + 1] = dayData.c],
                                stockData, i + 1)
            ELSE TsWriteSamples(priceGrid, stockData, i + 1)

\* Forward fill of one month row from day on.
RECURSIVE TsForwardFill(_, _, _)
TsForwardFill(row, day, lastValidPrice) ==
    IF day >= GRID_DAYS THEN row
    ELSE IF row[day + 1] = tsBasePrice
         THEN TsForwardFill([row EXCEPT ![day + 1] = lastValidPrice], day + 1, lastValidPrice)
         ELSE TsForwardFill(row, day + 1, row[day + 1])

\* Backward fill of one month row from day down.
RECURSIVE TsBackwardFill(_, _, _)
TsBackwardFill(row, day, lastValidPrice) ==
    IF day < 0 THEN row
    ELSE IF row[day + 1] = tsBasePrice
         THEN TsBackwardFill([row EXCEPT ![day + 1] = lastValidPrice], day - 1, lastValidPrice)
         ELSE TsBackwardFill(row, day - 1, row[day + 1])

TsFillRow(row) ==
    LET forward == TsForwardFill(row, 0, row[1])
    IN TsBackwardFill(forward, GRID_DAYS - 1, forward[GRID_DAYS])

RECURSIVE TsFillMonths(_, _)
TsFillMonths(priceGrid, month) ==
    IF month >= GRID_MONTHS THEN priceGrid
    ELSE TsFillMonths([priceGrid EXCEPT ![month + 1] = TsFillRow(priceGrid[month + 1])],
                      month + 1)

\* The priceGrid of the render effect.
TsBuildGrid(stockData) == TsFillMonths(TsWriteSamples(TsEmptyGrid, stockData, 1), 0)

\* priceGrid.flat()
TsPrices(priceGrid) ==
    {priceGrid[m + 1][d + 1] : m \in 0..(GRID_MONTHS - 1), d \in 0..(GRID_DAYS - 1)}

\* (price - minPrice) / (maxPrice - minPrice)
NormalizedPrice(build, month, day) ==
    Rat(build.priceGrid[month + 1][day + 1] - build.minPrice,
        build.maxPrice - build.minPrice)

\* normalizedPrice * HEIGHT_SCALE
Height(build, month, day) ==
    LET normalizedPrice == NormalizedPrice(build, month, day)
    IN Rat(normalizedPrice.n * HEIGHT_SCALE, normalizedPrice.d)

\* The inner vertex loop: positions.push(month, height, day), three entries
\* a vertex.
RECURSIVE PositionsOfMonth(_, _, _, _)
PositionsOfMonth(build, gridDays, month, day) ==
    IF day >= gridDays THEN <<>>
    ELSE <<month, Height(build, month, day), day>>
             \o PositionsOfMonth(build, gridDays, month, day + 1)

\* The vertex loop over the months.
RECURSIVE PositionsFrom(_, _, _, _)
PositionsFrom(build, gridMonths, gridDays, month) ==
    IF month >= gridMonths THEN <<>>
    ELSE PositionsOfMonth(build, gridDays, month, 0)
             \o PositionsFrom(build, gridMonths, gridDays, month + 1)

Positions(build) == PositionsFrom(build, GRID_MONTHS, GRID_DAYS, 0)

\* The inner index loop, with its bound one cell too far.
RECURSIVE IndicesOfMonthWide(_, _, _)
IndicesOfMonthWide(gridDays, month, day) ==
    IF day >= gridDays THEN <<>>
    ELSE LET a == month * gridDays + day
             b == month * gridDays + day + 1
             c == (month + 1) * gridDays + day
             d == (month + 1) * gridDays + day + 1
         IN <<a, b, c, b, d, c>> \o IndicesOfMonthWide(gridDays, month, day + 1)

\* The inner index loop: two triangles (a, b, c) and (b, d, c) for each grid
\* cell.
RECURSIVE IndicesOfMonth(_, _, _)
IndicesOfMonth(gridDays, month, day) ==
    IF day >= gridDays - 1 THEN <<>>
    ELSE LET a == month * gridDays + day
             b == month * gridDays + day + 1
             c == (month + 1) * gridDays + day
             d == (month + 1) * gridDays + day + 1
         IN <<a, b, c, b, d, c>> \o IndicesOfMonth(gridDays, month, day + 1)

\* The index loop over the months but the last.
RECURSIVE IndicesFrom(_, _, _)
IndicesFrom(gridMonths, gridDays, month) ==
    IF month >= gridMonths - 1 THEN <<>>
    ELSE IndicesOfMonth(gridDays, month, 0) \o IndicesFrom(gridMonths, gridDays, month + 1)

Indices == IndicesFrom(GRID_MONTHS, GRID_DAYS, 0)

\* The world position of vertex i of the positions array: terrain.scale.x
\* stretches the local x by X_SCALE_FACTOR.
VertexPoint(positions, i) ==
    [x |-> positions[3 * i + 1] * X_SCALE_NUM,
     y |-> positions[3 * i + 2],
     z |-> positions[3 * i + 3] * X_SCALE_DEN]

\* The month index taken from the world x without the scale: Math.floor(point.x)
MonthIndexUnscaled(point) == point.x \div X_SCALE_DEN

\* Math.floor(point.x / X_SCALE_FACTOR)
MonthIndex(point) == point.x \div X_SCALE_NUM

\* Math.floor(point.z)
DayIndex(point) == point.z \div X_SCALE_DEN

\* The month clamp without its lower bound.
SafeMonthIndexNoFloor(point) == MathMin(MonthIndex(point), GRID_MONTHS - 1)

\* Math.min(Math.max(0, monthIndex), GRID_MONTHS - 1)
SafeMonthIndex(point) == MathMin(MathMax(0, MonthIndex(point)), GRID_MONTHS - 1)

\* Math.min(Math.max(0, dayIndex), GRID_DAYS - 1)
SafeDayIndex(point) == MathMin(MathMax(0, DayIndex(point)), GRID_DAYS - 1)

\* point.y / HEIGHT_SCALE
NormalizedHeight(point) == Rat(point.y.n, point.y.d * HEIGHT_SCALE)

\* price.toFixed(2) of a whole price.
ToFixed2(price) == ToString(price) \o ".00"

\* (h * 100).toFixed(1) of a non-negative rational h.
PercentToFixed1(h) ==
    IF h.d = 0 THEN "NaN"
    ELSE LET tenths == (2 * 1000 * h.n + h.d) \div (2 * h.d)
         IN ToString(tenths \div 10) \o "." \o ToString(tenths % 10)

\* newHoverData of a hit at point on the terrain of build.
HoverData(build, point) ==
    [day |-> ToString(SafeDayIndex(point) + 1),
     price |-> ToFixed2(build.priceGrid[SafeMonthIndex(point) + 1][SafeDayIndex(point) + 1]),
     month |-> ToString(SafeMonthIndex(point) + 1),
     rawHeight |-> PercentToFixed1(NormalizedHeight(point))]

\* useRef({ day: '15', price: basePrice.toFixed(2), month: '6', rawHeight: "50.0" })
InitialLastHit ==
    [day |-> "15", price |-> ToFixed2(tsBasePrice), month |-> "6", rawHeight |-> "50.0"]

\* new THREE.Mesh(...).position
Origin == [x |-> 0, y |-> Rat(0, 1), z |-> 0]

NoTerrain ==
    [n |-> 0, of |-> 0, priceGrid |-> <<>>, minPrice |-> 0, maxPrice |-> 0,
     helperVisible |-> FALSE, helperPosition |-> Origin]

\* A build that hands over priceGrid before its rows are filled.
BuildUnfilled(n, of, stockData) ==
    LET priceGrid == TsWriteSamples(TsEmptyGrid, stockData, 1)
    IN [n |-> n, of |-> of, priceGrid |-> priceGrid,
        minPrice |-> SetMin(TsPrices(priceGrid)),
        maxPrice |-> SetMax(TsPrices(priceGrid)),
        helperVisible |-> FALSE, helperPosition |-> Origin]

\* The terrain a render effect run builds from stockData: priceGrid and the
\* minPrice / maxPrice its vertices are normalized with.
Build(n, of, stockData) ==
    LET priceGrid == TsBuildGrid(stockData)
    IN [n |-> n, of |-> of, priceGrid |-> priceGrid,
        minPrice |-> SetMin(TsPrices(priceGrid)),
        maxPrice |-> SetMax(TsPrices(priceGrid)),
        helperVisible |-> FALSE, helperPosition |-> Origin]

(***************************************************************************)
(* TerrainShader with real data (3DChart.jsx): fetch effect, render effect *)
(* and animate loop.                                                       *)
(***************************************************************************)
MaxRequests == 2

\* The cells whose vertices the modelled ray can hit.
PickMonths == {11}
PickDays == {14}
\* The cells on whose month-to-month edge the modelled ray can hit.
EdgeMonths == {0}

\* The point of the mesh two fifths of the way along the edge from the vertex
\* of (month, day) to the vertex of (month + 1, day), an edge of the triangle
\* (a, b, c) of that cell: its height is interpolated between the two.
EdgePoint(build, month, day) ==
    LET ha == Height(build, month, day)
        hc == Height(build, month + 1, day)
    IN [x |-> month * X_SCALE_NUM + 2,
        y |-> Rat(3 * ha.n + 2 * hc.n, 5 * ha.d),
        z |-> day * X_SCALE_DEN]

\* What raycaster.intersectObject(terrain) can return first: nothing on a
\* mesh whose heights are NaN; otherwise a vertex of the mesh, a point inside
\* an edge, or a point that rounding puts just outside the near or the far
\* edges.
HitPoints(build) ==
    IF build.maxPrice = build.minPrice THEN {}
    ELSE LET positions == Positions(build)
             last == GRID_MONTHS * GRID_DAYS - 1
         IN {VertexPoint(positions, month * GRID_DAYS + day) :
                 month \in PickMonths, day \in PickDays}
            \cup {EdgePoint(build, month, day) : month \in EdgeMonths, day \in PickDays}
            \cup {[x |-> -1, y |-> VertexPoint(positions, 0).y, z |-> -1],
                  [x |-> VertexPoint(positions, last).x + 1,
                   y |-> VertexPoint(positions, last).y,
                   z |-> VertexPoint(positions, last).z + 1]}

\* What the raycaster can return for the terrain of a build.
Intersections(build) == {<<>>} \cup {<<point>> : point \in HitPoints(build)}

\* The builds whose animate loop runs: requestAnimationFrame(animate) is
\* never cancelled, so the loops of cleaned-up effect runs go on.
Loops == (IF tsTerrain.n # 0 THEN {tsTerrain} ELSE {}) \cup tsStale

\* The helper of a build after a tick.
WithHelper(build, visible, position) ==
    [build EXCEPT !.helperVisible = visible, !.helperPosition = position]

\* animate with lastHitRef blanked when the ray misses.
AnimateBlanking(build, intersects, lastHit, hover) ==
    IF Len(intersects) > 0
    THEN LET point == intersects[1]
             newHoverData == HoverData(build, point)
         IN [build |-> WithHelper(build, TRUE, point),
             lastHit |-> newHoverData,
             hover |-> [called |-> TRUE, data |-> newHoverData]]
    ELSE [build |-> WithHelper(build, FALSE, build.helperPosition),
          lastHit |-> InitialLastHit,
          hover |-> [called |-> FALSE, data |-> hover.data]]

\* The body of animate for the terrain of a build: the build, lastHitRef
\* and the last onHoverData call after the tick.  intersects is what the
\* raycaster returns (empty, or the nearest intersection first).
Animate(build, intersects, lastHit, hover) ==
    IF Len(intersects) > 0
    THEN LET point == intersects[1]
             newHoverData == HoverData(build, point)
         IN [build |-> WithHelper(build, TRUE, point),
             lastHit |-> newHoverData,
             hover |-> [called |-> TRUE, data |-> newHoverData]]
    ELSE [build |-> WithHelper(build, FALSE, build.helperPosition),
          lastHit |-> lastHit,
          hover |-> [called |-> FALSE, data |-> hover.data]]

\* One run of the render effect on the values of a render: the cleanup of
\* the previous run, the guard, the build, and the first call of animate.
RenderEffect(isLoading, error, stockData, of) ==
    /\ tsStale' = (IF tsTerrain.n # 0 THEN tsStale \cup {tsTerrain} ELSE tsStale)
    /\ IF isLoading \/ error # "null" \/ Len(stockData) = 0
       THEN /\ tsTerrain' = NoTerrain
            /\ tsBuilds' = tsBuilds
            /\ UNCHANGED tsPickVars
       ELSE \E intersects \in Intersections(Build(tsBuilds + 1, of, stockData)) :
                LET tick == Animate(Build(tsBuilds + 1, of, stockData), intersects,
                                    tsLastHit, tsHover)
                IN /\ tsTerrain' = tick.build
                   /\ tsBuilds' = tsBuilds + 1
                   /\ tsLastHit' = tick.lastHit
                   /\ tsHover' = tick.hover

\* Mount: the fetch effect starts the first request; the render effect
\* returns at its guard (isLoading is true and no canvas is rendered).
TsMount ==
    /\ mounted = "TerrainShader"
    /\ tsReq = 0
    /\ tsReq' = 1
    /\ tsInFlight' = {1}
    /\ tsLoading' = TRUE
    /\ tsError' = "null"
    /\ tsErrorOf' = 0
    /\ RenderEffect(tsLoading, tsError, tsStockData, tsDataOf)
    /\ tsDirty' = FALSE
    /\ UNCHANGED <<mounted, tuVars, tjVars, scVars, sgvVars, ccVars, tsStockData, tsDataOf>>

\* The parent changes symbol or year: the fetch effect starts a new request
\* (setIsLoading(true), setError(null)) and the render effect runs on the
\* values of this render; the state updates make it due again.
TsSetSymbol ==
    /\ mounted = "TerrainShader"
    /\ tsReq >= 1
    /\ tsReq < MaxRequests
    /\ tsReq' = tsReq + 1
    /\ tsInFlight' = tsInFlight \cup {tsReq + 1}
    /\ tsLoading' = TRUE
    /\ tsError' = "null"
    /\ tsErrorOf' = 0
    /\ RenderEffect(tsLoading, tsError, tsStockData, tsDataOf)
    /\ tsDirty' = (~tsLoading \/ tsError # "null")
    /\ UNCHANGED <<mounted, tuVars, tjVars, scVars, sgvVars, ccVars, tsStockData, tsDataOf>>

\* fetchStockData after its awaits, for the request r it was started for.
TsFetchResolve(r, resp) ==
    /\ mounted = "TerrainShader"
    /\ r \in tsInFlight
    /\ tsInFlight' = tsInFlight \ {r}
    /\ IF resp.kind = "ok" /\ Len(resp.results) > 0
       THEN /\ tsStockData' = SortByT(resp.results, Len(resp.results))
            /\ tsDataOf' = r
            /\ UNCHANGED <<tsError, tsErrorOf>>
       ELSE /\ tsError' = (IF resp.kind = "networkError" THEN "Failed to fetch"
                           ELSE IF resp.kind = "httpError" THEN "HTTP error! status"
                           ELSE "No stock data found for " \o ToString(r))
            /\ tsErrorOf' = r
            /\ UNCHANGED <<tsStockData, tsDataOf>>
    /\ tsLoading' = FALSE
    /\ tsDirty' = TRUE
    /\ UNCHANGED <<mounted, tuVars, tjVars, scVars, sgvVars, ccVars, tsReq, tsTerrain, tsStale, tsBuilds,
                   tsPickVars>>

\* The render effect runs after a render that changed its dependencies.
TsRender ==
    /\ mounted = "TerrainShader"
    /\ tsDirty
    /\ RenderEffect(tsLoading, tsError, tsStockData, tsDataOf)
    /\ tsDirty' = FALSE
    /\ UNCHANGED <<mounted, tuVars, tjVars, scVars, sgvVars, ccVars, tsFetchVars>>

\* One frame tick of the animate loop of a build.
TsAnimate(build, intersects) ==
    /\ mounted = "TerrainShader"
    /\ build \in Loops
    /\ intersects \in Intersections(build)
    /\ LET tick == Animate(build, intersects, tsLastHit, tsHover)
       IN /\ tsTerrain' = (IF build = tsTerrain THEN tick.build ELSE tsTerrain)
          /\ tsStale' = (IF build = tsTerrain THEN tsStale
                         ELSE (tsStale \ {build}) \cup {tick.build})
          /\ tsLastHit' = tick.lastHit
          /\ tsHover' = tick.hover
    /\ UNCHANGED <<mounted, tuVars, tjVars, scVars, sgvVars, ccVars, tsFetchVars, tsDirty, tsBuilds>>

(***************************************************************************)
(* StockCandlestickChart (CandlestickChart.jsx): the fetch effect.         *)
(***************************************************************************)
\* The cleanup of a run of the chart effect: the surface is deleted when the
\* run's sciChartSurface variable holds one.
ChartCleanup(charts, run) ==
    IF run = 0 THEN charts
    ELSE [charts EXCEPT ![run] = [surface |-> (IF @.surface = "live" THEN "deleted"
                                               ELSE @.surface),
                                  created |-> @.created,
                                  cleaned |-> TRUE]]

\* A run of the chart effect on the stockData of a render: the cleanup of
\* the previous run, the guard (hasData: stockData is neither null nor
\* empty), and initializeChart() up to its await of SciChartSurface.create.
ChartEffect(hasData) ==
    IF ~hasData
    THEN /\ ccCharts' = ChartCleanup(ccCharts, ccChartRun)
         /\ ccChartRun' = 0
    ELSE /\ ccCharts' = Append(ChartCleanup(ccCharts, ccChartRun),
                               [surface |-> "null", created |-> FALSE, cleaned |-> FALSE])
         /\ ccChartRun' = Len(ccCharts) + 1

\* Mount: the fetch effect starts the first request; the chart effect
\* returns at its guard (stockData is null).
CcMount ==
    /\ mounted = "StockCandlestickChart"
    /\ ccReq = 0
    /\ ccReq' = 1
    /\ ccInFlight' = {1}
    /\ ccLoading' = TRUE
    /\ ccError' = "null"
    /\ ccErrorOf' = 0
    /\ UNCHANGED <<mounted, tuVars, tjVars, scVars, sgvVars, tsVars, ccStockData, ccDataOf,
                   ccChartVars>>

\* ticker changes: the fetch effect starts a new request, and the chart
\* effect runs again on the stockData of the render.
CcSetTicker ==
    /\ mounted = "StockCandlestickChart"
    /\ ccReq >= 1
    /\ ccReq < MaxRequests
    /\ ccReq' = ccReq + 1
    /\ ccInFlight' = ccInFlight \cup {ccReq + 1}
    /\ ccLoading' = TRUE
    /\ ccError' = "null"
    /\ ccErrorOf' = 0
    /\ ChartEffect(ccDataOf # 0 /\ ccStockData # <<>>)
    /\ UNCHANGED <<mounted, tuVars, tjVars, scVars, sgvVars, tsVars, ccStockData, ccDataOf>>

\* fetchStockData after its awaits, for the request r it was started for;
\* setStockData changes stockData, and the chart effect runs again.
CcFetchResolve(r, resp) ==
    /\ mounted = "StockCandlestickChart"
    /\ r \in ccInFlight
    /\ ccInFlight' = ccInFlight \ {r}
    /\ IF resp.kind = "ok" /\ Len(resp.results) > 0
       THEN /\ ccStockData' = SortByT(resp.results, Len(resp.results))
            /\ UNCHANGED <<ccError, ccErrorOf>>
       ELSE /\ ccError' = (IF resp.kind = "networkError" THEN "Data fetch error: Failed to fetch"
                           ELSE IF resp.kind = "httpError" THEN "Data fetch error: HTTP error! status"
                           ELSE "Data fetch error: No data available for " \o ToString(r))
            /\ ccErrorOf' = r
            /\ ccStockData' = <<>>
    /\ ccDataOf' = r
    /\ ccLoading' = FALSE
    /\ ChartEffect(ccStockData' # <<>>)
    /\ UNCHANGED <<mounted, tuVars, tjVars, scVars, sgvVars, tsVars, ccReq>>

\* initializeChart after its await: SciChartSurface.create resolves and the
\* surface is stored in the run's sciChartSurface variable.
CcCreateResolve(run) ==
    /\ mounted = "StockCandlestickChart"
    /\ run \in 1..Len(ccCharts)
    /\ ~ccCharts[run].created
    /\ ccCharts' = [ccCharts EXCEPT ![run] = [surface |-> "live", created |-> TRUE,
                                              cleaned |-> @.cleaned]]
    /\ UNCHANGED <<mounted, tuVars, tjVars, scVars, sgvVars, tsVars, ccReq, ccInFlight, ccStockData,
                   ccDataOf, ccLoading, ccError, ccErrorOf, ccChartRun>>

(***************************************************************************)
(* TerrainShader with synthetic terrain (terrain.jsx): the seed and        *)
(* generateTerrain.  Raw elevations are counted in eighths (the octave     *)
(* amplitudes are 1, 1/2, 1/4, 1/8) and noise coordinates in units of      *)
(* 1 / GRID_SIZE; the heights of the vertex array are exact quotients.     *)
(***************************************************************************)
\* The resolution of the modelled terrain, in place of GRID_SIZE = 128.
TjGridSize == 2

\* Date.now() % 1000 of the modelled mounts, both ends of its range.
TjClock == (0..29) \cup (970..999)

TjSymbols == {"AAPL", "MSFT"}

\* symbol.split('').reduce((acc, char) => acc + char.charCodeAt(0), 0)
CharCodeSum(symbol) == IF symbol = "AAPL" THEN 286 ELSE 314

\* perlin.noise(x, y, z) of three.js' ImprovedNoise, which is outside the
\* repository: a fixed function of its three inputs, here of whole range
\* -5..5, x and y counted in units of 1 / GRID_SIZE.
Noise(x, y, z) == ((x * 7 + y * 13 + z * 31 + x * y) % 11) - 5

\* The octave loop: elevation += amplitude * perlin.noise(nx * frequency,
\* ny * frequency, z), amplitude in eighths.
RECURSIVE OctaveLoop(_, _, _, _, _, _, _)
OctaveLoop(x, y, z, octave, elevation, amplitude, frequency) ==
    IF octave >= 4 THEN elevation
    ELSE OctaveLoop(x, y, z, octave + 1,
                    elevation + amplitude * Noise(x * 2 * frequency, y * 2 * frequency, z),
                    amplitude \div 2, frequency * 2)

\* The raw elevation of the vertex at position i of the vertex array.
Elevation(i, z) ==
    LET x == (i % ((TjGridSize + 1) * 3)) \div 3
        y == i \div ((TjGridSize + 1) * 3)
    IN OctaveLoop(x, y, z, 0, 0, 8, 1)

\* vertices.length of PlaneGeometry(50, 50, GRID_SIZE, GRID_SIZE)
VerticesLength == 3 * ((TjGridSize + 1) * (TjGridSize + 1))

\* The y of the vertices of the plane after rotateX: flat.
PlaneHeights == [j \in 1..(VerticesLength \div 3) |-> Rat(0, 1)]

\* (rawHeight - min) / (max - min) * HEIGHT_SCALE
NormalizedTo(rawHeight, minMax) ==
    Rat((rawHeight - minMax.min) * HEIGHT_SCALE, minMax.max - minMax.min)

\* The first loop: raw elevations pushed and folded into minMaxRef.current.
RECURSIVE RawPass(_, _, _, _)
RawPass(i, z, rawHeights, minMax) ==
    IF i >= VerticesLength THEN [rawHeights |-> rawHeights, minMax |-> minMax]
    ELSE LET elevation == Elevation(i, z)
         IN RawPass(i + 3, z, Append(rawHeights, elevation),
                    [min |-> MathMin(minMax.min, elevation),
                     max |-> MathMax(minMax.max, elevation)])

\* The second loop: vertices[i + 1] = normalizedHeight * HEIGHT_SCALE.
RECURSIVE NormalizePass(_, _, _, _, _)
NormalizePass(i, j, rawHeights, minMax, heights) ==
    IF i >= VerticesLength THEN heights
    ELSE NormalizePass(i + 3, j + 1, rawHeights, minMax,
                       [heights EXCEPT ![j + 1] = NormalizedTo(rawHeights[j + 1], minMax)])

\* One loop that writes each height as soon as its elevation is known, with
\* the min and max seen so far.
RECURSIVE OnePass(_, _, _, _, _)
OnePass(i, j, z, minMax, heights) ==
    IF i >= VerticesLength THEN [heights |-> heights, minMax |-> minMax]
    ELSE LET elevation == Elevation(i, z)
             soFar == [min |-> MathMin(minMax.min, elevation),
                       max |-> MathMax(minMax.max, elevation)]
         IN OnePass(i + 3, j + 1, z, soFar,
                    [heights EXCEPT ![j + 1] = NormalizedTo(elevation, soFar)])

\* generateTerrain normalizing in its first loop.
GenerateTerrainOnePass(terrainSeed, minMaxRef) ==
    OnePass(0, 0, terrainSeed % 1000, [min |-> Infinity, max |-> -Infinity], PlaneHeights)

\* generateTerrain without line 206: minMaxRef.current is folded on from
\* what the run before left in it.
GenerateTerrainNoReset(terrainSeed, minMaxRef) ==
    LET z == terrainSeed % 1000
        first == RawPass(0, z, <<>>, minMaxRef)
    IN [heights |-> NormalizePass(0, 0, first.rawHeights, first.minMax, PlaneHeights),
        minMax |-> first.minMax]

\* generateTerrain, given terrainSeed and what minMaxRef.current holds when
\* it is called: the heights of the vertex array and minMaxRef.current as it
\* leaves them.
GenerateTerrain(terrainSeed, minMaxRef) ==
    LET z == terrainSeed % 1000
        first == RawPass(0, z, <<>>, [min |-> Infinity, max |-> -Infinity])
    IN [heights |-> NormalizePass(0, 0, first.rawHeights, first.minMax, PlaneHeights),
        minMax |-> first.minMax]

\* Mount: the effect draws the seed (terrainSeed is null) and returns.
TjMount ==
    /\ mounted = "TerrainShader (terrain.jsx)"
    /\ tjSeed = null
    /\ \E now \in TjClock : tjSeed' = (now % 1000) + CharCodeSum(tjSymbol)
    /\ tjDirty' = TRUE
    /\ UNCHANGED <<mounted, tuVars, tjBasePrice, scVars, sgvVars, tsVars, ccVars, tjSymbol, tjMinMax, tjHeights,
                   tjTouchVars>>

\* One run of the effect with a seed: the scene and its terrain are built,
\* and setupControls stores new OrbitControls (enableRotate is true) in
\* controlsRef.
TjEffect ==
    /\ mounted = "TerrainShader (terrain.jsx)"
    /\ tjSeed # null
    /\ tjDirty
    /\ LET terrain == GenerateTerrain(tjSeed, tjMinMax)
       IN /\ tjHeights' = terrain.heights
          /\ tjMinMax' = terrain.minMax
    /\ tjDirty' = FALSE
    /\ tjEnableRotate' = TRUE
    /\ UNCHANGED <<mounted, tuVars, tjBasePrice, scVars, sgvVars, tsVars, ccVars, tjSymbol, tjSeed,
                   tjPointer, tjInteracting>>

\* A symbol change that draws the seed again for the new symbol.
TjSetSymbolReseeding(symbol) ==
    /\ mounted = "TerrainShader (terrain.jsx)"
    /\ tjSeed # null
    /\ ~tjDirty
    /\ symbol # tjSymbol
    /\ tjSymbol' = symbol
    /\ \E now \in TjClock : tjSeed' = (now % 1000) + CharCodeSum(symbol)
    /\ LET terrain == GenerateTerrain(tjSeed', tjMinMax)
       IN /\ tjHeights' = terrain.heights
          /\ tjMinMax' = terrain.minMax
    /\ tjEnableRotate' = TRUE
    /\ UNCHANGED <<mounted, tuVars, tjBasePrice, scVars, sgvVars, tsVars, ccVars, tjDirty,
                   tjPointer, tjInteracting>>

\* The parent changes symbol: cleanup, and the effect runs again with the
\* seed it has.
TjSetSymbol(symbol) ==
    /\ mounted = "TerrainShader (terrain.jsx)"
    /\ tjSeed # null
    /\ ~tjDirty
    /\ symbol # tjSymbol
    /\ tjSymbol' = symbol
    /\ LET terrain == GenerateTerrain(tjSeed, tjMinMax)
       IN /\ tjHeights' = terrain.heights
          /\ tjMinMax' = terrain.minMax
    /\ tjEnableRotate' = TRUE
    /\ UNCHANGED <<mounted, tuVars, tjBasePrice, scVars, sgvVars, tsVars, ccVars, tjSeed, tjDirty,
                   tjPointer, tjInteracting>>

\* The basePrice props the parent passes.
TjBasePrices == {170, 200}

\* The parent changes basePrice: cleanup, and the effect runs again with the
\* seed it has.
TjSetBasePrice(price) ==
    /\ mounted = "TerrainShader (terrain.jsx)"
    /\ tjSeed # null
    /\ ~tjDirty
    /\ price # tjBasePrice
    /\ tjBasePrice' = price
    /\ LET terrain == GenerateTerrain(tjSeed, tjMinMax)
       IN /\ tjHeights' = terrain.heights
          /\ tjMinMax' = terrain.minMax
    /\ tjEnableRotate' = TRUE
    /\ UNCHANGED <<mounted, tuVars, scVars, sgvVars, tsVars, ccVars, tjSymbol, tjSeed, tjDirty,
                   tjPointer, tjInteracting>>

\* Where a pointer event can be on the canvas: over the terrain or beside it.
TjPositions == {"terrain", "beside"}

\* onPointerMove: pointerRef follows the event.
TjPointerMove(position) ==
    /\ mounted = "TerrainShader (terrain.jsx)"
    /\ tjHeights # <<>>
    /\ tjPointer' = position
    /\ UNCHANGED <<mounted, tuVars, tjBasePrice, scVars, sgvVars, tsVars, ccVars, tjSymbol, tjSeed, tjDirty,
                   tjMinMax, tjHeights, tjInteracting, tjEnableRotate>>

\* onPointerDown: checkTerrainIntersection() with the ray of the event, and
\* the lock when it hits on a mobile device.
OnPointerDown(position, isMobile, interacting, enableRotate) ==
    LET terrainHit == position = "terrain"
    IN IF terrainHit /\ isMobile
       THEN [interacting |-> TRUE, enableRotate |-> FALSE]
       ELSE [interacting |-> interacting, enableRotate |-> enableRotate]

\* A pointerdown event; isMobileDevice() is evaluated by the handler.
TjPointerDown(position, isMobile) ==
    /\ mounted = "TerrainShader (terrain.jsx)"
    /\ tjHeights # <<>>
    /\ tjPointer' = position
    /\ LET after == OnPointerDown(position, isMobile, tjInteracting, tjEnableRotate)
       IN /\ tjInteracting' = after.interacting
          /\ tjEnableRotate' = after.enableRotate
    /\ UNCHANGED <<mounted, tuVars, tjBasePrice, scVars, sgvVars, tsVars, ccVars, tjSymbol, tjSeed, tjDirty,
                   tjMinMax, tjHeights>>

\* onPointerUp, the handler of pointerup, pointercancel and pointerleave.
TjPointerUp ==
    /\ mounted = "TerrainShader (terrain.jsx)"
    /\ tjHeights # <<>>
    /\ IF tjInteracting
       THEN /\ tjInteracting' = FALSE
            /\ tjEnableRotate' = TRUE
       ELSE UNCHANGED <<tjInteracting, tjEnableRotate>>
    /\ UNCHANGED <<mounted, tuVars, tjBasePrice, scVars, sgvVars, tsVars, ccVars, tjSymbol, tjSeed, tjDirty,
                   tjMinMax, tjHeights, tjPointer>>

(***************************************************************************)
(* Specification of the grid builders.                                     *)
(***************************************************************************)
(***************************************************************************)
(* The unseeded synthetic TerrainShader (3DChart.jsx).                     *)
(***************************************************************************)
\* Math.random() * 100 of the modelled runs, as the z handed to the noise.
TuRandoms == 0..10

\* generateTerrain of the unseeded variant, given the z it draws and what
\* minMaxRef.current holds when it is called: the first pass folds the raw
\* elevations into minMaxRef.current, the second normalizes with it.
GenerateTerrainUnseeded(z, minMaxRef) ==
    LET first == RawPass(0, z, <<>>, minMaxRef)
    IN [heights |-> NormalizePass(0, 0, first.rawHeights, first.minMax, PlaneHeights),
        minMax |-> first.minMax]

\* The body of the effect: the scene and its terrain are built.
TuRunEffect(z) ==
    LET terrain == GenerateTerrainUnseeded(z, tuMinMax)
    IN /\ tuZ' = z
       /\ tuHeights' = terrain.heights
       /\ tuMinMax' = terrain.minMax

\* Mount: the effect runs for the first time.
TuMount(z) ==
    /\ mounted = "TerrainShader (unseeded)"
    /\ tuHeights = <<>>
    /\ TuRunEffect(z)
    /\ UNCHANGED <<mounted, scVars, sgvVars, tsVars, ccVars, tjVars>>

\* The parent passes another onHoverData: cleanup, and the effect runs again
\* in the same component instance.
TuSetOnHoverData(z) ==
    /\ mounted = "TerrainShader (unseeded)"
    /\ tuHeights # <<>>
    /\ TuRunEffect(z)
    /\ UNCHANGED <<mounted, scVars, sgvVars, tsVars, ccVars, tjVars>>

InitTuVars ==
    /\ tuZ = null
    /\ tuMinMax = [min |-> Infinity, max |-> -Infinity]
    /\ tuHeights = <<>>

InitGridVars ==
    /\ scPhase = "idle"
    /\ scGrid = <<>>
    /\ scRange = NoRange
    /\ scSeries = FALSE
    /\ scError = "null"
    /\ scLoading = TRUE
    /\ scResults = <<>>
    /\ scAlive = TRUE
    /\ scSurfaces = <<>>
    /\ scPending = {}
    /\ scMainChart = null
    /\ scCleanupChart = null
    /\ sgvPhase = "idle"
    /\ gridData = <<>>
    /\ dataStats = [minPrice |-> 0, maxPrice |-> 0, totalDataPoints |-> 0, tradingDays |-> 0]
    /\ sgvError = "null"
    /\ sgvLoading = FALSE
    /\ sgvResults = <<>>

InitTsVars ==
    /\ tsReq = 0
    /\ tsInFlight = {}
    /\ tsStockData = <<>>
    /\ tsDataOf = 0
    /\ tsLoading = TRUE
    /\ tsError = "null"
    /\ tsErrorOf = 0
    /\ tsDirty = FALSE
    /\ tsTerrain = NoTerrain
    /\ tsStale = {}
    /\ tsBuilds = 0
    /\ tsLastHit = InitialLastHit
    /\ tsHover = [called |-> FALSE, data |-> InitialLastHit]

InitTjVars ==
    /\ tjSymbol = "AAPL"
    /\ tjBasePrice = 170
    /\ tjSeed = null
    /\ tjDirty = FALSE
    /\ tjMinMax = [min |-> Infinity, max |-> -Infinity]
    /\ tjHeights = <<>>
    /\ tjPointer = "terrain"
    /\ tjInteracting = FALSE
    /\ tjEnableRotate = TRUE

InitCcVars ==
    /\ ccReq = 0
    /\ ccInFlight = {}
    /\ ccStockData = null
    /\ ccDataOf = 0
    /\ ccLoading = TRUE
    /\ ccError = "null"
    /\ ccErrorOf = 0
    /\ ccCharts = <<>>
    /\ ccChartRun = 0

Init ==
    /\ mounted \in {"SurfaceChart", "StockGridVisualizer"}
    /\ InitGridVars
    /\ InitTsVars
    /\ InitCcVars
    /\ InitTjVars
    /\ InitTuVars

Next ==
    \/ SurfaceChartInit
    \/ \E id \in scPending : \E resp \in Responses : InitChartsFail(id, resp)
    \/ \E id \in scPending : \E resp \in Responses : InitChartsBuild(id, resp)
    \/ FetchAndProcessDataStart
    \/ \E resp \in Responses : FetchAndProcessDataFail(resp)
    \/ \E resp \in Responses : FetchAndProcessData(resp)

Spec == Init /\ [][Next]_vars

(***************************************************************************)
(* Specification of the fetches: the components that fetch on a prop       *)
(* change, with requests answered in any order, and SurfaceChart's one     *)
(* fetch.                                                                  *)
(***************************************************************************)
\* The samples of the modelled responses of the aggregates feed: a close
\* equal to the basePrice prop, and closes on either side of it.
FetchTimestamps == {[y |-> SampleYear, mo |-> 0, d |-> 31], [y |-> SampleYear, mo |-> 11, d |-> 1]}

FetchPrices == {105, 170, 200}

FetchSamples == [t : FetchTimestamps, c : FetchPrices]

FetchSampleSeqs == UNION {[1..n -> FetchSamples] : n \in 0..MaxSamples}

\* A late sample first: the feed's order is not relied on.
FetchPayloads ==
    {<<>>,
     <<[t |-> [y |-> SampleYear, mo |-> 11, d |-> 1], c |-> 200],
       [t |-> [y |-> SampleYear, mo |-> 0, d |-> 31], c |-> 105]>>,
     <<[t |-> [y |-> SampleYear, mo |-> 0, d |-> 31], c |-> 170]>>}

FetchResponses ==
    {[kind |-> "networkError"], [kind |-> "httpError"], [kind |-> "noResults"]}
    \cup {[kind |-> "ok", results |-> r] : r \in FetchPayloads}

InitFetch ==
    /\ mounted \in {"TerrainShader", "StockCandlestickChart", "SurfaceChart"}
    /\ InitGridVars
    /\ InitTsVars
    /\ InitCcVars
    /\ InitTjVars
    /\ InitTuVars

NextFetch ==
    \/ TsMount
    \/ TsSetSymbol
    \/ \E r \in 1..MaxRequests : \E resp \in FetchResponses : TsFetchResolve(r, resp)
    \/ TsRender
    \/ CcMount
    \/ CcSetTicker
    \/ \E r \in 1..MaxRequests : \E resp \in FetchResponses : CcFetchResolve(r, resp)
    \/ \E run \in 1..Len(ccCharts) : CcCreateResolve(run)
    \/ SurfaceChartInit
    \/ \E id \in scPending : \E resp \in FetchResponses : InitChartsFail(id, resp)
    \/ \E id \in scPending : \E resp \in FetchResponses : InitChartsBuild(id, resp)

SpecFetch == InitFetch /\ [][NextFetch]_vars

(***************************************************************************)
(* Specification of the pick: TerrainShader with one request, its mesh,    *)
(* and the ticks of its animate loop.                                      *)
(***************************************************************************)
\* Two samples of one month, the later one closing at the basePrice prop.
SameMonthPayload ==
    <<[t |-> [y |-> SampleYear, mo |-> 0, d |-> 15], c |-> 105],
      [t |-> [y |-> SampleYear, mo |-> 0, d |-> 31], c |-> tsBasePrice]>>

PickResponses ==
    {[kind |-> "networkError"], [kind |-> "httpError"], [kind |-> "noResults"]}
    \cup {[kind |-> "ok", results |-> r] : r \in FetchSampleSeqs \cup {SameMonthPayload}}

InitPick ==
    /\ mounted = "TerrainShader"
    /\ InitGridVars
    /\ InitTsVars
    /\ InitCcVars
    /\ InitTjVars
    /\ InitTuVars

NextPick ==
    \/ TsMount
    \/ \E resp \in PickResponses : TsFetchResolve(1, resp)
    \/ TsRender
    \/ \E build \in Loops : \E intersects \in Intersections(build) : TsAnimate(build, intersects)

SpecPick == InitPick /\ [][NextPick]_vars

(***************************************************************************)
(* Specification of the synthetic terrain: terrain.jsx's TerrainShader,    *)
(* its seed and the runs of its effect.                                    *)
(***************************************************************************)
InitTerrain ==
    /\ mounted \in {"TerrainShader (terrain.jsx)", "TerrainShader (unseeded)"}
    /\ InitGridVars
    /\ InitTsVars
    /\ InitCcVars
    /\ InitTjVars
    /\ InitTuVars

NextTerrain ==
    \/ TjMount
    \/ TjEffect
    \/ \E symbol \in TjSymbols : TjSetSymbol(symbol)
    \/ \E price \in TjBasePrices : TjSetBasePrice(price)
    \/ \E position \in TjPositions : TjPointerMove(position)
    \/ \E position \in TjPositions : \E isMobile \in BOOLEAN : TjPointerDown(position, isMobile)
    \/ TjPointerUp
    \/ \E z \in TuRandoms : TuMount(z)
    \/ \E z \in TuRandoms : TuSetOnHoverData(z)

SpecTerrain == InitTerrain /\ [][NextTerrain]_vars

(***************************************************************************)
(* Specification of the chart surfaces: SurfaceChart with ticker and year  *)
(* changes and the unmount, its fetches answered in any order.             *)
(***************************************************************************)
\* What the feed can answer to SurfaceChart: the responses of the fetches,
\* and a response that carries a sample of the year before (the answer to a
\* request made for the previous year prop is among them).
SurfaceResponses ==
    FetchResponses
    \cup {[kind |-> "ok",
           results |-> <<[t |-> [y |-> SampleYear, mo |-> 0, d |-> 31], c |-> 105],
                         [t |-> [y |-> SampleYear - 1, mo |-> 11, d |-> 1], c |-> 200]>>]}

InitSurface ==
    /\ mounted = "SurfaceChart"
    /\ InitGridVars
    /\ InitTsVars
    /\ InitCcVars
    /\ InitTjVars
    /\ InitTuVars

NextSurface ==
    \/ SurfaceChartInit
    \/ ScSetTicker
    \/ ScUnmount
    \/ \E id \in scPending : \E resp \in SurfaceResponses : InitChartsFail(id, resp)
    \/ \E id \in scPending : \E resp \in SurfaceResponses : InitChartsBuild(id, resp)

SpecSurface == InitSurface /\ [][NextSurface]_vars

(***************************************************************************)
(* Properties of the grid builders.                                        *)
(***************************************************************************)
Cells(grid) == {grid[m + 1][d + 1] : m \in 0..(months - 1), d \in 0..(days - 1)}

\* The months that received at least one sample.
SampledMonths(results) == {getMonth(results[i].t) : i \in 1..Len(results)}

\* The sampled month nearest to m by index distance, the lower one on a tie.
NearestSampled(results, m) ==
    CHOOSE mm \in SampledMonths(results) :
        \A o \in SampledMonths(results) :
            \/ MathAbs(mm - m) < MathAbs(o - m)
            \/ MathAbs(mm - m) = MathAbs(o - m) /\ mm <= o

\* C1: with sentinel 0 and month fallback, whenever the sample set holds a
\* sample with a positive close, no cell of the 12x31 grid is the sentinel
\* after forward fill, backward fill and month fallback (SurfaceChart and
\* StockGridVisualizer).
C1_NoSentinelAfterFill ==
    /\ (scPhase = "done" /\ (\E i \in 1..Len(scResults) : scResults[i].c > 0))
          => basePrice \notin Cells(scGrid)
    /\ (sgvPhase = "done" /\ (\E i \in 1..Len(sgvResults) : sgvResults[i].c > 0))
          => basePrice \notin Cells(gridData)

\* A build from a single mid-month sample: forward fill, backward fill and
\* the fallback of eleven empty months all act.
C1_Witness ==
    /\ sgvPhase = "done"
    /\ Len(sgvResults) = 1
    /\ getDate(sgvResults[1].t) = 15

\* C2: every month that received no sample ends with the row of the nearest
\* month (by index distance, lower index on a tie) among the months that did
\* receive a sample.
C2_RowOfNearestSampledMonth ==
    /\ scPhase = "done" =>
          \A m \in (0..(months - 1)) \ SampledMonths(scResults) :
              scGrid[m + 1] = scGrid[NearestSampled(scResults, m) + 1]
    /\ (sgvPhase = "done" /\ Len(sgvResults) > 0) =>
          \A m \in (0..(months - 1)) \ SampledMonths(sgvResults) :
              gridData[m + 1] = gridData[NearestSampled(sgvResults, m) + 1]

\* C3: the range of the SurfaceChart build has max >= min and max - min >= 10,
\* and every grid cell lies within it.
C3_RangeWideAndCovering ==
    scPhase = "done" =>
        /\ scRange.max >= scRange.min
        /\ scRange.max - scRange.min >= 10
        /\ \A c \in Cells(scGrid) : scRange.min <= c /\ c <= scRange.max

\* A build whose raw range is narrower than 10 without being flat.
C3_Witness ==
    /\ scPhase = "done"
    /\ LET raw == RawRange(scResults, scGrid)
       IN raw.max - raw.min > 0 /\ raw.max - raw.min < 10

\* C4: with an empty results array the StockGridVisualizer build completes,
\* the grid stays entirely sentinel and the range is the fallback [0, 1000].
C4_EmptyResultsFallbackRange ==
    (sgvPhase = "done" /\ Len(sgvResults) = 0) =>
        /\ gridData = EmptyGrid
        /\ dataStats.minPrice = 0
        /\ dataStats.maxPrice = 1000
        /\ dataStats.maxPrice >= dataStats.minPrice


\* C5: last requested symbol wins.  Once every response has arrived and the
\* render effect has run, the stock data, the error and the mesh that are
\* visible are those of the latest request, whatever the order of arrival:
\* in TerrainShader the error, if any, is the latest request's, and otherwise
\* the data and the mesh are; in StockCandlestickChart the data and the error
\* are the latest request's.
C5_LastRequestedSymbolWins ==
    /\ (mounted = "TerrainShader" /\ tsReq >= 1 /\ tsInFlight = {} /\ ~tsDirty) =>
           /\ tsError # "null" => tsErrorOf = tsReq
           /\ tsError = "null" => (tsDataOf = tsReq /\ tsTerrain.of = tsReq)
    /\ (mounted = "StockCandlestickChart" /\ ccReq >= 1 /\ ccInFlight = {}) =>
           /\ ccDataOf = ccReq
           /\ ccError # "null" => ccErrorOf = ccReq

\* C6: every failure of the feed still ends with a mesh.  Once SurfaceChart's
\* initCharts has ended, its surface series exists; once TerrainShader's
\* responses have arrived and its render effect has run, its terrain exists.
C6_FailureStillProducesMesh ==
    /\ (mounted = "SurfaceChart" /\ scPhase \in {"done", "error"}) => scSeries
    /\ (mounted = "TerrainShader" /\ tsReq >= 1 /\ tsInFlight = {} /\ ~tsDirty) =>
           tsTerrain.n # 0

\* C7: retain-last pick.  A tick of animate whose ray misses leaves lastHitRef
\* unchanged, calls onHoverData not at all and only hides the helper; and
\* lastHitRef changes only in a step whose ray hit, to the hover data of the
\* point hit, which is also what onHoverData is called with.
C7_RetainLastPick ==
    [][/\ \A build \in Loops :
              TsAnimate(build, <<>>) =>
                  /\ tsLastHit' = tsLastHit
                  /\ ~tsHover'.called
                  /\ tsHover'.data = tsHover.data
                  /\ [build EXCEPT !.helperVisible = FALSE] \in Loops'
                  /\ tsFetchVars' = tsFetchVars
       /\ tsLastHit' # tsLastHit =>
              /\ tsHover'.called
              /\ tsHover'.data = tsLastHit'
              /\ \E build \in Loops' :
                     /\ build.helperVisible
                     /\ HoverData(build, build.helperPosition) = tsLastHit'
      ]_vars

\* A tick missed after a hit: the hover data of the hit is still there.
C7_Witness ==
    /\ tsLastHit # InitialLastHit
    /\ ~tsHover.called
    /\ tsTerrain.n # 0
    /\ ~tsTerrain.helperVisible

\* World x and z of probe points, in units of 1 / X_SCALE_DEN: from beyond the
\* near edges to beyond the far edges x = 11 * 2.5 and z = 30.
ProbeXs == (0 - 2 * X_SCALE_NUM) .. ((GRID_MONTHS + 2) * X_SCALE_NUM)

ProbeZs == (0 - 2 * X_SCALE_DEN) .. ((GRID_DAYS + 2) * X_SCALE_DEN)

ProbePoint(x, z) == [x |-> x, y |-> Rat(0, 1), z |-> z]

OneBased(n) == {ToString(k) : k \in 1..n}

\* C8: the indices a pick reads priceGrid with are within 0..11 and 0..30 for
\* every intersection point, negative and beyond the far edges included, and
\* the month and the day that are reported are within 1..12 and 1..31.
C8_PickIndicesClamped ==
    /\ \A x \in ProbeXs : SafeMonthIndex(ProbePoint(x, 0)) \in 0..(GRID_MONTHS - 1)
    /\ \A z \in ProbeZs : SafeDayIndex(ProbePoint(0, z)) \in 0..(GRID_DAYS - 1)
    /\ \A build \in Loops :
           build.helperVisible =>
               /\ SafeMonthIndex(build.helperPosition) + 1 \in DOMAIN build.priceGrid
               /\ SafeDayIndex(build.helperPosition) + 1
                      \in DOMAIN build.priceGrid[SafeMonthIndex(build.helperPosition) + 1]
    /\ tsLastHit.month \in OneBased(GRID_MONTHS)
    /\ tsLastHit.day \in OneBased(GRID_DAYS)

\* A hit before the near edges, reported as month 1, day 1.
C8_Witness ==
    /\ tsTerrain.helperVisible
    /\ tsTerrain.helperPosition.x < 0
    /\ tsTerrain.helperPosition.z < 0
    /\ tsLastHit.month = "1"
    /\ tsLastHit.day = "1"
    /\ tsHover.called

\* The largest grid shape of the general case.
MaxShape == 4

\* C9: the mesh of the 12 x 31 grid, and of every rows x cols grid from 2 x 2
\* on, has rows * cols vertices (three positions each) and
\* 2 * (rows - 1) * (cols - 1) triangles (three indices each), and every
\* index is a vertex index in 0..rows * cols - 1.
C9_MeshCounts ==
    /\ \A build \in Loops : Len(Positions(build)) = 3 * (GRID_MONTHS * GRID_DAYS)
    /\ LET indices == Indices
       IN /\ Len(indices) = 3 * (2 * (GRID_MONTHS - 1) * (GRID_DAYS - 1))
          /\ \A i \in 1..Len(indices) : indices[i] \in 0..(GRID_MONTHS * GRID_DAYS - 1)
    /\ \A rows \in 2..MaxShape : \A cols \in 2..MaxShape :
           LET indices == IndicesFrom(rows, cols, 0)
           IN /\ Len(indices) = 3 * (2 * (rows - 1) * (cols - 1))
              /\ \A i \in 1..Len(indices) : indices[i] \in 0..(rows * cols - 1)
              /\ \A build \in Loops : Len(PositionsFrom(build, rows, cols, 0)) = 3 * (rows * cols)

\* A terrain was built for the data of the request.
C9_Witness ==
    /\ tsTerrain.n # 0
    /\ tsTerrain.of = 1
    /\ Len(tsStockData) > 0

\* The same number: equal, or both NaN.
SameNumber(a, b) == RatEq(a, b) \/ (IsNaN(a) /\ IsNaN(b))

\* C10: round trip.  The vertex of every cell (month, day) of a terrain, fed
\* back as the pick point, gives the month and day indices of the cell, its
\* price, and a normalized height that is the one the vertex was made from
\* (on a flat grid both are 0 / 0).
C10_RoundTrip ==
    \A build \in Loops :
        LET positions == Positions(build)
        IN \A month \in 0..(GRID_MONTHS - 1) : \A day \in 0..(GRID_DAYS - 1) :
               LET point == VertexPoint(positions, month * GRID_DAYS + day)
                   picked == HoverData(build, point)
               IN /\ SafeMonthIndex(point) = month
                  /\ SafeDayIndex(point) = day
                  /\ picked.month = ToString(month + 1)
                  /\ picked.day = ToString(day + 1)
                  /\ picked.price = ToFixed2(build.priceGrid[month + 1][day + 1])
                  /\ SameNumber(NormalizedHeight(point), NormalizedPrice(build, month, day))
                  /\ picked.rawHeight = PercentToFixed1(NormalizedPrice(build, month, day))

\* The ray hit the vertex of December 15 of a terrain that is not flat.
C10_Witness ==
    /\ tsTerrain.n # 0
    /\ tsTerrain.minPrice < tsTerrain.maxPrice
    /\ tsTerrain.helperVisible
    /\ tsTerrain.helperPosition = VertexPoint(Positions(tsTerrain), 11 * GRID_DAYS + 14)
    /\ tsLastHit.month = "12"
    /\ tsLastHit.day = "15"

\* The grid of SurfaceChart after the sample write and the fill, before the
\* month fallback.
FilledGrid(results) == FillMonths(WriteSamples(EmptyGrid, results, 1), 0)

\* C11: forward fill followed by backward fill is idempotent.  Applying the
\* two passes again changes no cell: of the grid as the fill left it (with
\* its months that are still entirely sentinel), of the grid after the month
\* fallback (fully filled), and of TerrainShader's priceGrid built from the
\* same samples.
C11_FillIdempotent ==
    /\ scPhase = "done" =>
           /\ FillMonths(FilledGrid(scResults), 0) = FilledGrid(scResults)
           /\ FillMonths(scGrid, 0) = scGrid
           /\ TsFillMonths(TsBuildGrid(scResults), 0) = TsBuildGrid(scResults)
    /\ sgvPhase = "done" =>
           /\ FillMonths(FilledGrid(sgvResults), 0) = FilledGrid(sgvResults)
           /\ FillMonths(gridData, 0) = gridData

\* A build from two samples at the start and in the middle of January: both
\* passes fill days, and eleven months are entirely sentinel after the fill.
C11_Witness ==
    /\ scPhase = "done"
    /\ Len(scResults) = 2
    /\ getMonth(scResults[1].t) = 0 /\ getDate(scResults[1].t) = 1
    /\ getMonth(scResults[2].t) = 0 /\ getDate(scResults[2].t) = 15
    /\ ~HasData(FilledGrid(scResults)[6])
    /\ basePrice \notin Cells(scGrid)

\* What minMaxRef.current can hold when generateTerrain is called: its
\* initial value, or the extremes of some earlier run.
Leftovers ==
    {[min |-> Infinity, max |-> -Infinity], [min |-> -100, max |-> 100], [min |-> 0, max |-> 0]}

\* C12: generateTerrain is deterministic.  The heights a run leaves in the
\* vertex array are those of any run with the same terrainSeed and the same
\* resolution, whatever minMaxRef held before the run; a run repeated with
\* the seed unchanged (symbol change) therefore leaves the same heights.
C12_SameSeedSameTerrain ==
    tjHeights # <<>> =>
        \A leftover \in Leftovers \cup {tjMinMax} :
            /\ GenerateTerrain(tjSeed, leftover).heights = tjHeights
            /\ GenerateTerrain(tjSeed, leftover).minMax = tjMinMax

\* The effect has run again for another symbol, with the seed drawn at mount.
C12_Witness ==
    /\ tjHeights # <<>>
    /\ ~tjDirty
    /\ tjSymbol = "MSFT"
    /\ tjSeed < CharCodeSum("MSFT")

\* The raw elevations of a run, vertex by vertex.
RawHeights(terrainSeed) ==
    RawPass(0, terrainSeed % 1000, <<>>, [min |-> Infinity, max |-> -Infinity]).rawHeights

\* C20: two-pass normalization.  After a run the min and max are the least
\* and the greatest raw elevation of that run, every height is its vertex's
\* raw elevation normalized with them and scaled, within 0..HEIGHT_SCALE, the
\* lowest vertex at 0 and the highest at HEIGHT_SCALE.
C20_TwoPassNormalization ==
    tjHeights # <<>> =>
        LET rawHeights == RawHeights(tjSeed)
            lo == SetMin({rawHeights[j] : j \in 1..Len(rawHeights)})
            hi == SetMax({rawHeights[j] : j \in 1..Len(rawHeights)})
        IN /\ Len(tjHeights) = Len(rawHeights)
           /\ tjMinMax = [min |-> lo, max |-> hi]
           /\ \A j \in 1..Len(tjHeights) :
                  /\ tjHeights[j] = Rat((rawHeights[j] - lo) * HEIGHT_SCALE, hi - lo)
                  /\ RatLeq(Rat(0, 1), tjHeights[j])
                  /\ RatLeq(tjHeights[j], Rat(HEIGHT_SCALE, 1))
           /\ \E j \in 1..Len(tjHeights) : RatEq(tjHeights[j], Rat(0, 1))
           /\ \E j \in 1..Len(tjHeights) : RatEq(tjHeights[j], Rat(HEIGHT_SCALE, 1))

\* A run whose first vertex is neither the lowest nor the highest: the min
\* and the max both move after heights could have been written.
C20_Witness ==
    /\ tjHeights # <<>>
    /\ \E j \in 2..Len(tjHeights) : RawHeights(tjSeed)[j] < RawHeights(tjSeed)[1]
    /\ \E j \in 2..Len(tjHeights) : RawHeights(tjSeed)[j] > RawHeights(tjSeed)[1]

\* A response with the one sample of close c on the given month and date.
SingleSample(mo, d, c) == <<[t |-> [y |-> SampleYear, mo |-> mo, d |-> d], c |-> c]>>

\* Dates every month has.
ScenarioDates == {1, 14, 15, 28}

\* C13: single-sample scenario.  When the only sample is at (m, d) with
\* close p, after the build every cell of month m and of every other month
\* is p, and the range before widening is min = max = p: for the builds of
\* SurfaceChart from one sample, and for the build from one sample at any
\* month and any of four dates.
C13_SingleSampleFlat ==
    /\ (scPhase = "done" /\ Len(scResults) = 1) =>
           /\ \A m \in 0..(months - 1) : \A d \in 0..(days - 1) :
                  scGrid[m + 1][d + 1] = scResults[1].c
           /\ RawRange(scResults, scGrid) = [min |-> scResults[1].c, max |-> scResults[1].c]
    /\ scPhase = "fetching" =>
           \A mo \in 0..(months - 1) : \A d \in ScenarioDates :
               LET results == SingleSample(mo, d, 200)
               IN /\ Cells(BuildGrid(results)) = {200}
                  /\ RawRange(results, BuildGrid(results)) = [min |-> 200, max |-> 200]

\* The build from the one sample of June 15 with close 200.
C13_Witness ==
    /\ scPhase = "done"
    /\ scResults = SingleSample(5, 15, 200)
    /\ scGrid[1][1] = 200

\* The samples are one on January 1 and one on January 31, in either order.
TwoSampleScenario(results) ==
    /\ Len(results) = 2
    /\ {<<getMonth(results[i].t), getDate(results[i].t)>> : i \in 1..2} = {<<0, 1>>, <<0, 31>>}

\* The close of the sample of the given date.
CloseOn(results, date) ==
    results[CHOOSE i \in 1..Len(results) : getDate(results[i].t) = date].c

\* C14 as stated: with samples only on day 0 and day 30 of month 0, after the
\* fill day 0 of month 0 holds the close of day 0 and days 1 to 30 hold the
\* close of day 30.
C14_BackwardFillTakesTheGap ==
    (scPhase = "done" /\ TwoSampleScenario(scResults)) =>
        /\ scGrid[1][1] = CloseOn(scResults, 1)
        /\ \A d \in 1..(days - 1) : scGrid[1][d + 1] = CloseOn(scResults, 31)

\* C14 amended: with samples only on day 0 and day 30 of month 0, after the
\* fill days 0 to 29 of month 0 hold the close of day 0 (the forward pass
\* carries it into the gap, and the backward pass finds no sentinel left)
\* and day 30 holds the close of day 30.
C14_ForwardFillTakesTheGap ==
    (scPhase = "done" /\ TwoSampleScenario(scResults)) =>
        /\ \A d \in 0..(days - 2) : FilledGrid(scResults)[1][d + 1] = CloseOn(scResults, 1)
        /\ FilledGrid(scResults)[1][days] = CloseOn(scResults, 31)
        /\ scGrid[1] = FilledGrid(scResults)[1]

\* The build from the samples of January 1 (close 100) and January 31
\* (close 200).
C14_Witness ==
    /\ scPhase = "done"
    /\ TwoSampleScenario(scResults)
    /\ CloseOn(scResults, 1) = 100
    /\ CloseOn(scResults, 31) = 200
    /\ scGrid[1][15] = 100

\* C15: degenerate-range widening is symmetric.  Whenever the range before
\* widening is narrower than 10, the range handed to the chart keeps its
\* midpoint: both bounds have moved outward by the same amount.
C15_WideningKeepsMidpoint ==
    scPhase = "done" =>
        LET raw == RawRange(scResults, scGrid)
        IN raw.max - raw.min < 10 =>
               /\ raw.min - scRange.min = scRange.max - raw.max
               /\ scRange.min + scRange.max = raw.min + raw.max

\* C16: SurfaceChart releases its rendering resources on cleanup.  After any
\* sequence of ticker/year changes at most one undeleted chart surface
\* exists, and after the unmount none exists.
LiveSurfaces == {i \in 1..Len(scSurfaces) : scSurfaces[i] = "live"}

C16_SurfacesReleased ==
    /\ Cardinality(LiveSurfaces) <= 1
    /\ ~scAlive => LiveSurfaces = {}

\* A month row the fills have left in part: cells still at the basePrice
\* fill beside cells that carry a price.
PartlyFilled(row) ==
    LET cells == {row[day] : day \in 1..Len(row)}
    IN tsBasePrice \in cells /\ cells # {tsBasePrice}

\* The height the mesh of a build has under a point of a month-to-month edge
\* (the edge's two vertex heights interpolated), the points just outside the
\* mesh taken to its nearest vertex.
MeshHeightAt(build, point) ==
    LET month == SafeMonthIndex(point)
        day == SafeDayIndex(point)
        next == MathMin(month + 1, GRID_MONTHS - 1)
        fifths == MathMin(MathMax(0, point.x - month * X_SCALE_NUM), X_SCALE_NUM - 1)
        ha == Height(build, month, day)
        hc == Height(build, next, day)
    IN Rat((X_SCALE_NUM - fifths) * ha.n + fifths * hc.n, X_SCALE_NUM * ha.d)

\* C17: partial builds are never exposed.  The terrain of every animate loop
\* carries a priceGrid whose sample write and fills have completed and the
\* minPrice / maxPrice of that same grid, its helper sits at the height its
\* own mesh has under the picked point, and the data a tick reported was read
\* from the grid of the build whose mesh the tick intersected.
C17_TickSeesOneCompleteBuild ==
    /\ \A build \in Loops :
           /\ Len(build.priceGrid) = GRID_MONTHS
           /\ \A month \in 1..GRID_MONTHS :
                  /\ Len(build.priceGrid[month]) = GRID_DAYS
                  /\ ~PartlyFilled(build.priceGrid[month])
           /\ build.minPrice = SetMin(TsPrices(build.priceGrid))
           /\ build.maxPrice = SetMax(TsPrices(build.priceGrid))
           /\ build.helperVisible =>
                  RatEq(build.helperPosition.y, MeshHeightAt(build, build.helperPosition))
    /\ tsTerrain.n # 0 => TsFillMonths(tsTerrain.priceGrid, 0) = tsTerrain.priceGrid
    /\ tsHover.called =>
           \E build \in Loops :
               /\ build.helperVisible
               /\ tsHover.data = HoverData(build, build.helperPosition)

\* A second build has replaced a first one with another grid, and its tick
\* reported a price of its own grid where the replaced grid holds another.
C17_Witness ==
    /\ tsTerrain.n = 2
    /\ tsTerrain.helperVisible
    /\ tsHover.called
    /\ tsHover.data = HoverData(tsTerrain, tsTerrain.helperPosition)
    /\ \E stale \in tsStale :
           /\ stale.priceGrid # tsTerrain.priceGrid
           /\ HoverData(stale, tsTerrain.helperPosition).price # tsHover.data.price

\* C18: in the real-data TerrainShader the normalized value of every cell of
\* every built grid is a defined number in [0, 1] and every vertex height is
\* in [0, HEIGHT_SCALE], the grid whose cells are all equal included.
C18_NormalizedInUnitInterval ==
    \A build \in Loops :
        \A month \in 0..(GRID_MONTHS - 1), day \in 0..(GRID_DAYS - 1) :
            /\ ~IsNaN(NormalizedPrice(build, month, day))
            /\ RatLeq(Rat(0, 1), NormalizedPrice(build, month, day))
            /\ RatLeq(NormalizedPrice(build, month, day), Rat(1, 1))
            /\ RatLeq(Rat(0, 1), Height(build, month, day))
            /\ RatLeq(Height(build, month, day), Rat(HEIGHT_SCALE, 1))

\* FinanceChart.initializeChart: stockData.filter(day => new
\* Date(day.t).getFullYear() === year)
RECURSIVE FilterYear(_, _, _)
FilterYear(stockData, year, i) ==
    IF i > Len(stockData) THEN <<>>
    ELSE IF getFullYear(stockData[i].t) = year
         THEN <<stockData[i]>> \o FilterYear(stockData, year, i + 1)
         ELSE FilterYear(stockData, year, i + 1)

\* C19: a sample whose timestamp lies outside the target year is ignored by
\* the grid build.  The grid and the raw range SurfaceChart builds from a
\* response, and the grid the real-data TerrainShader builds from it, are
\* those built from the samples of the target year alone.
C19_OutOfYearIgnored ==
    scPhase = "done" =>
        LET inYear == FilterYear(scResults, SampleYear, 1)
        IN /\ scGrid = BuildGrid(inYear)
           /\ RawRange(scResults, scGrid) = RawRange(inYear, BuildGrid(inYear))
           /\ TsBuildGrid(scResults) = TsBuildGrid(inYear)

\* range.min + normalizedHeight * (range.max - range.min) of a hit at point
\* on the terrain of build.
PriceOfHeight(build, point) ==
    LET normalizedHeight == NormalizedHeight(point)
    IN Rat(build.minPrice * normalizedHeight.d
               + normalizedHeight.n * (build.maxPrice - build.minPrice),
           normalizedHeight.d)

\* C21: for real-data grids the price reported for a hit is range.min +
\* normalizedHeight * (range.max - range.min), at every hit point of the
\* mesh.  The helper of a build marks the point of its last hit, for which
\* the tick reported priceGrid[safeMonthIndex][safeDayIndex].
C21_PriceFollowsHeight ==
    \A build \in Loops :
        build.helperVisible =>
            LET point == build.helperPosition
                price == build.priceGrid[SafeMonthIndex(point) + 1][SafeDayIndex(point) + 1]
            IN RatEq(Rat(price, 1), PriceOfHeight(build, point))

\* C22: in the real-data TerrainShader grid build, for every non-empty sample
\* set no cell of the 12 x 31 grid remains at the sentinel (basePrice) after
\* the fill, the cells of months without a sample included.  Samples that
\* close at the basePrice itself are left aside.
C22_NoSentinelInTerrainGrid ==
    (/\ tsTerrain.n # 0
     /\ Len(tsStockData) > 0
     /\ \A i \in 1..Len(tsStockData) : tsStockData[i].c # tsBasePrice)
        => tsBasePrice \notin TsPrices(tsTerrain.priceGrid)

\* The days (0-based) of month m that received a sample.
SampledDays(results, m) ==
    {getDate(results[i].t) - 1 : i \in {j \in 1..Len(results) : getMonth(results[j].t) = m}}

\* The fill-order precedence in the rows of the sampled months of a grid
\* built from results: written is the grid after the sample write alone.
FillPrecedence(results, grid) ==
    LET written == WriteSamples(EmptyGrid, results, 1)
    IN \A m \in SampledMonths(results) :
           LET sampled == SampledDays(results, m)
               first == CHOOSE d \in sampled : \A o \in sampled : d <= o
               forward == ForwardFill(written[m + 1], 0, null)
           IN \A d \in 0..(days - 1) :
                  /\ d >= first =>
                         LET at == CHOOSE n \in sampled :
                                       /\ n <= d
                                       /\ \A o \in sampled : o <= d => o <= n
                         IN grid[m + 1][d + 1] = written[m + 1][at + 1]
                  /\ d < first =>
                         /\ forward[d + 1] = basePrice
                         /\ grid[m + 1][d + 1] = written[m + 1][first + 1]
                  /\ forward[d + 1] # basePrice => grid[m + 1][d + 1] = forward[d + 1]

\* C23: fill-order precedence within one month row.  After forward then
\* backward fill every cell at or after the month's first sample day holds
\* the close of the nearest sample at or before it in that month, only the
\* cells before the first sample day take the first sample's close, and the
\* backward fill changes no cell that a sample or the forward fill set.
C23_FillPrecedence ==
    /\ scPhase = "done" => FillPrecedence(scResults, scGrid)
    /\ sgvPhase = "done" => FillPrecedence(sgvResults, gridData)

\* Two samples of different closes in the middle and at the end of January:
\* a leading gap, a gap between the samples, and the last day.
C23_Witness ==
    /\ scPhase = "done"
    /\ Len(scResults) = 2
    /\ SampledDays(scResults, 0) = {14, 30}
    /\ scGrid[1][15] # scGrid[1][31]
    /\ scGrid[1][1] = scGrid[1][15]
    /\ scGrid[1][30] = scGrid[1][15]

\* The close of the last sample of stockData written to the cell of sample i.
LastWritten(stockData, i) ==
    LET same == {j \in 1..Len(stockData) :
                     /\ getMonth(stockData[j].t) = getMonth(stockData[i].t)
                     /\ getDate(stockData[j].t) = getDate(stockData[i].t)}
    IN stockData[CHOOSE j \in same : \A o \in same : o <= j].c

\* C24: observed values survive the fill in the real-data TerrainShader.
\* After the sample write and both fill passes every cell that received a
\* sample holds the close of the last sample written to it, a close equal to
\* the basePrice prop included.
C24_SamplesSurviveFill ==
    tsTerrain.n # 0 =>
        \A i \in 1..Len(tsStockData) :
            tsTerrain.priceGrid[getMonth(tsStockData[i].t) + 1][getDate(tsStockData[i].t)]
                = LastWritten(tsStockData, i)

\* C25: after the render effect of a TerrainShader has been cleaned up, the
\* animate loop started by that effect run ticks no more, so that no loop of
\* a cleaned-up run is left running and, after any sequence of rebuilds, at
\* most one frame loop is active.
C25_NoLoopAfterCleanup ==
    /\ tsStale = {}
    /\ Cardinality(Loops) <= 1

\* C26: in StockCandlestickChart every chart surface created by
\* initializeChart is deleted once the cleanup of its effect run has run,
\* whether the cleanup runs after or before SciChartSurface.create resolves:
\* no created surface of a cleaned-up run stays undeleted.
C26_NoSurfaceOutlivesItsRun ==
    \A run \in 1..Len(ccCharts) :
        (ccCharts[run].cleaned /\ ccCharts[run].created) => ccCharts[run].surface = "deleted"

\* C27: loading flag consistency.  In the real-data TerrainShader and in
\* StockCandlestickChart isLoading is true in every state in which the most
\* recently started fetch has not yet completed, and false once it has.
C27_LoadingWhileLastFetchInFlight ==
    /\ tsReq >= 1 => (tsLoading <=> tsReq \in tsInFlight)
    /\ ccReq >= 1 => (ccLoading <=> ccReq \in ccInFlight)

\* C28: touch rotation lock (terrain.jsx).  Over any sequence of pointer
\* events and effect re-runs the current controls' enableRotate is false
\* exactly when interactingWithTerrainRef is true.
C28_RotateLockedIffInteracting ==
    tjHeights # <<>> => (tjEnableRotate = FALSE <=> tjInteracting)

\* C29: seed lifecycle (terrain.jsx).  terrainSeed goes from null to a number
\* once and never changes afterwards, no terrain is generated while the seed
\* is null, and every later change of symbol or basePrice rebuilds the mesh
\* with that same seed, the rebuilt height field being the previous one.
C29_SeedLifecycle ==
    [][/\ tjSeed # null => tjSeed' = tjSeed
       /\ tjSeed = null => tjHeights = <<>>
       /\ tjSeed' = null => tjHeights' = <<>>
       /\ tjHeights # <<>> => tjHeights' = tjHeights
       /\ tjHeights' # <<>> => tjHeights' = GenerateTerrain(tjSeed, tjMinMax).heights]_vars

\* The symbol and the basePrice have both changed since the seed was drawn
\* for the first symbol, and the terrain on screen is that seed's.
C29_Witness ==
    /\ tjSymbol = "MSFT"
    /\ tjBasePrice = 200
    /\ tjSeed - CharCodeSum("AAPL") \in 0..999
    /\ tjHeights # <<>>
    /\ tjHeights = GenerateTerrain(tjSeed, tjMinMax).heights

\* C30: in the unseeded synthetic TerrainShader every run of generateTerrain
\* normalizes with the minimum and maximum raw elevation of that run only:
\* minMaxRef holds them after the run, the lowest vertex of the terrain is at
\* height 0 and the highest at HEIGHT_SCALE.
C30_RunNormalizesWithItsOwnRange ==
    tuHeights # <<>> =>
        LET rawHeights == RawPass(0, tuZ, <<>>, [min |-> Infinity, max |-> -Infinity]).rawHeights
            lo == SetMin({rawHeights[j] : j \in 1..Len(rawHeights)})
            hi == SetMax({rawHeights[j] : j \in 1..Len(rawHeights)})
        IN /\ tuMinMax = [min |-> lo, max |-> hi]
           /\ \E j \in 1..Len(tuHeights) : RatEq(tuHeights[j], Rat(0, 1))
           /\ \E j \in 1..Len(tuHeights) : RatEq(tuHeights[j], Rat(HEIGHT_SCALE, 1))
====
